---- MODULE Spec2Model ----
(***************************************************************************)
(* Model of espurna's terminal module (src/code/espurna/terminal.cpp):     *)
(*   - the single-slot hostname resolution task (namespace dns) and the    *)
(*     HOST command that waits on it,                                      *)
(*   - the message transport adapters (MQTT, web-socket, HTTP API) that    *)
(*     schedule a dispatcher call for a later loop iteration,              *)
(*   - the serial polling loop that feeds a LineBuffer and drains lines.   *)
(* Strings are sequences of one-character strings.                         *)
(***************************************************************************)
EXTENDS Integers, Sequences, FiniteSets, TLC

VARIABLES
    task,        \* dns::internal::task: NoTask, or the stored Task
    requests,    \* hostnames the external resolver reported ERR_INPROGRESS for
    calls,       \* history: every invocation of a FoundCallback
    starts,      \* history: every dns::start call, its inputs and the slot it found
    hostPc,      \* position of the HOST handler: "idle" or "loop" (lines 198-200)
    hostLog,     \* history: argv of every HOST invocation
    out,         \* ctx.output of the HOST invocations
    mqttSubscribed, \* mqttSubscribe(MQTT_TOPIC_CMD) was called
    jobs,        \* functions handed to schedule_function, not yet run
    accepted,    \* history: every job ever scheduled, in scheduling order
    dispatched,  \* history: every api_find_and_call, in call order
    httpResult,  \* what the last HTTP handler call returned, and the status it sent
    buffer,      \* serial::loop's static LineBuffer
    rx,          \* history: every byte the serial port delivered
    port,        \* what serial::loop wrote to the port with terminal::error
    lines,       \* history: every line handed to find_and_call by serial::loop
    cycle,       \* what the last serial poll cycle did
    serialPc,    \* position of serial::loop: "idle", or "drain" inside the for (;;)
    registry,    \* the registered command names, as terminal::names() lists them
    ran,         \* the last built-in handler that ran, and what it wrote to ctx.output
    layouts,     \* the Layouts object of the last STORAGE run
    received,    \* history: the last input a message transport was called with
    startLocal   \* dns::start between its resolver call and its switch: result and local task

dnsVars == <<task, requests, calls, starts, hostPc, hostLog, out, startLocal>>
queueVars == <<mqttSubscribed, jobs, accepted, dispatched, httpResult>>
msgVars == <<mqttSubscribed, jobs, accepted, dispatched, httpResult, received>>
serialVars == <<buffer, rx, port, lines, cycle, serialPc>>
cmdVars == <<registry, ran, layouts>>
vars == <<task, requests, calls, starts, hostPc, hostLog, out,
          mqttSubscribed, jobs, accepted, dispatched, httpResult,
          buffer, rx, port, lines, cycle, serialPc,
          registry, ran, layouts, received, startLocal>>

----------------------------------------------------------------------------
\* Bounds of the model

\* dns::start calls in one behaviour
MaxStarts == 2

\* HOST invocations in one behaviour
MaxHost == 2

\* messages the transports accept in one behaviour
MaxMsgs == 3

\* bytes the serial port delivers in one behaviour
MaxRx == 5

\* bytes one serial poll cycle finds available
MaxChunk == 3

\* command names registered in one behaviour
MaxNames == 3

\* regions a Layouts records
MaxRegions == 3

\* messages accepted while every transport input is recorded
MaxGuard == 2

\* pcbs NETSTAT finds in the three lists together
MaxPcbs == 2

----------------------------------------------------------------------------
\* Helpers on sequences

Last(s) == s[Len(s)]

\* every sequence over S of length 0..n
SeqsUpTo(S, n) == UNION {[1..k -> S] : k \in 0..n}

----------------------------------------------------------------------------
\* Hostname resolution: namespace dns (lines 108-179)

Hostnames == {"a", "b"}

\* addresses the resolver can produce
Addrs == {"10.0.0.1"}

\* ip_addr_t _addr { IPADDR_NONE }
IPADDR_NONE == "IPADDR_NONE"

\* the resolver's completion passes a null address pointer on failure
NULL == "NULL"

\* results of dns_gethostbyname (lwIP err_t)
ERR_OK == "ERR_OK"
ERR_INPROGRESS == "ERR_INPROGRESS"
ERR_ARG == "ERR_ARG"
Results == {ERR_OK, ERR_INPROGRESS, ERR_ARG}

\* an empty TaskPtr
NoTask == [id |-> 0]

\* Task(hostname, callback); callback is "host" for the lambda HOST passes and
\* "other" for any other caller's; id numbers the start call that made the task
Task(id, hostname, callback) ==
    [id |-> id, hostname |-> hostname, callback |-> callback, addr |-> IPADDR_NONE]

\* dns::started()
started == task # NoTask

\* the callback HOST passes to dns::start (lines 188-196)
HostCallback(name, addr) ==
    IF addr = NULL
    THEN out' = Append(out, [text |-> "not found", name |-> name, addr |-> NULL])
    ELSE out' = Append(out, [text |-> "has address", name |-> name, addr |-> addr])

\* t._callback(name, addr, arg)
Callback(t, name, addr, inline) ==
    /\ calls' = Append(calls, [cb |-> t.id, name |-> name, addr |-> addr, inline |-> inline])
    /\ IF t.callback = "host" THEN HostCallback(name, addr) ELSE out' = out

\* Task::found_callback(name, addr, arg)
TaskFoundCallbackArgs(t, name, addr) == Callback(t, name, addr, FALSE)

\* Task::found_callback()
TaskFoundCallback(t) == Callback(t, t.hostname, t.addr, TRUE)

found_callback_keeps(name, addr) ==
    IF task # NoTask
    THEN TaskFoundCallbackArgs(task, name, addr) /\ task' = task
    ELSE UNCHANGED <<task, calls, out>>

\* dns::internal::found_callback
found_callback(name, addr) ==
    IF task # NoTask
    THEN TaskFoundCallbackArgs(task, name, addr) /\ task' = NoTask
    ELSE UNCHANGED <<task, calls, out>>

start_silent(owner, hostname, result, addr) ==
    LET id == Len(starts) + 1
        t == [Task(id, hostname, owner) EXCEPT !.addr = IF result = ERR_OK THEN addr ELSE IPADDR_NONE]
    IN  /\ CASE result = ERR_INPROGRESS ->
                  /\ task' = t
                  /\ requests' = Append(requests, hostname)
                  /\ UNCHANGED <<calls, out>>
             [] OTHER ->
                  UNCHANGED <<task, requests, calls, out>>
        /\ starts' = Append(starts, [owner |-> owner, hostname |-> hostname,
                                     result |-> result, addr |-> t.addr,
                                     pending |-> started, after |-> task' # NoTask])

\* dns::start(hostname, callback), with what dns_gethostbyname answered:
\* `result`, and on ERR_OK the address it wrote through task->addr()
start(owner, hostname, result, addr) ==
    LET id == Len(starts) + 1
        t == [Task(id, hostname, owner) EXCEPT !.addr = IF result = ERR_OK THEN addr ELSE IPADDR_NONE]
    IN  /\ CASE result = ERR_OK ->
                  TaskFoundCallback(t) /\ UNCHANGED <<task, requests>>
             [] result = ERR_INPROGRESS ->
                  /\ task' = t
                  /\ requests' = Append(requests, hostname)
                  /\ UNCHANGED <<calls, out>>
             [] OTHER ->
                  UNCHANGED <<task, requests, calls, out>>
        /\ starts' = Append(starts, [owner |-> owner, hostname |-> hostname,
                                     result |-> result, addr |-> t.addr,
                                     pending |-> started, after |-> task' # NoTask])

\* a caller other than HOST runs dns::start
DnsStart(hostname, result, addr) ==
    /\ Len(starts) < MaxStarts
    /\ start("other", hostname, result, addr)
    /\ UNCHANGED <<hostPc, hostLog>>
    /\ UNCHANGED startLocal
    /\ UNCHANGED msgVars /\ UNCHANGED serialVars /\ UNCHANGED cmdVars

\* the resolver completes request i and calls the callback it was given
\* (internal::found_callback) with the request's name and the address or NULL
DnsFound(i, addr) ==
    /\ i \in 1..Len(requests)
    /\ requests' = [j \in 1..(Len(requests) - 1) |->
                        IF j < i THEN requests[j] ELSE requests[j + 1]]
    /\ found_callback(requests[i], addr)
    /\ UNCHANGED <<starts, hostPc, hostLog>>
    /\ UNCHANGED startLocal
    /\ UNCHANGED msgVars /\ UNCHANGED serialVars /\ UNCHANGED cmdVars

\* argument vectors the dispatcher hands to HOST
Argvs == {<<"HOST">>, <<"HOST", "a">>, <<"HOST", "b">>, <<"HOST", "a", "b">>}

UsageError == [text |-> "error", name |-> "HOST <hostname>", addr |-> NULL]

host_accepts_more(argv, result, addr) ==
    /\ hostPc = "idle"
    /\ Len(hostLog) < MaxHost
    /\ hostLog' = Append(hostLog, argv)
    /\ IF Len(argv) < 2
       THEN /\ out' = Append(out, UsageError)
            /\ hostPc' = "idle"
            /\ UNCHANGED <<task, requests, calls, starts>>
       ELSE /\ Len(starts) < MaxStarts
            /\ start("host", argv[2], result, addr)
            /\ hostPc' = IF task' # NoTask THEN "loop" ELSE "idle"
    /\ UNCHANGED startLocal
    /\ UNCHANGED msgVars /\ UNCHANGED serialVars /\ UNCHANGED cmdVars

\* commands::host, up to the first evaluation of the wait loop's condition
host(argv, result, addr) ==
    /\ hostPc = "idle"
    /\ Len(hostLog) < MaxHost
    /\ hostLog' = Append(hostLog, argv)
    /\ IF Len(argv) # 2
       THEN /\ out' = Append(out, UsageError)
            /\ hostPc' = "idle"
            /\ UNCHANGED <<task, requests, calls, starts>>
       ELSE /\ Len(starts) < MaxStarts
            /\ start("host", argv[2], result, addr)
            /\ hostPc' = IF task' # NoTask THEN "loop" ELSE "idle"
    /\ UNCHANGED startLocal
    /\ UNCHANGED msgVars /\ UNCHANGED serialVars /\ UNCHANGED cmdVars

\* start has no call in progress
NoLocal == [result |-> "none"]

\* dns::start up to the return of dns_gethostbyname (lines 159-166): the
\* local task is made and the resolver, answering ERR_INPROGRESS, holds the
\* request from here on
startCall(owner, hostname, result, addr) ==
    LET id == Len(starts) + 1
        t == [Task(id, hostname, owner) EXCEPT !.addr = IF result = ERR_OK THEN addr ELSE IPADDR_NONE]
    IN  /\ startLocal' = [result |-> result, task |-> t]
        /\ requests' = IF result = ERR_INPROGRESS THEN Append(requests, hostname) ELSE requests
        /\ UNCHANGED <<task, calls, starts, out>>

\* dns::start from its switch on (lines 168-177)
startSwitch ==
    LET t == startLocal.task
        result == startLocal.result
    IN  /\ CASE result = ERR_OK ->
                  TaskFoundCallback(t) /\ UNCHANGED task
             [] result = ERR_INPROGRESS ->
                  task' = t /\ UNCHANGED <<calls, out>>
             [] OTHER ->
                  UNCHANGED <<task, calls, out>>
        /\ starts' = Append(starts, [owner |-> t.callback, hostname |-> t.hostname,
                                     result |-> result, addr |-> t.addr,
                                     pending |-> started, after |-> task' # NoTask])
        /\ startLocal' = NoLocal
        /\ UNCHANGED requests

\* commands::host up to the return of dns_gethostbyname inside dns::start
hostCall(argv, result, addr) ==
    /\ hostPc = "idle"
    /\ Len(hostLog) < MaxHost
    /\ hostLog' = Append(hostLog, argv)
    /\ IF Len(argv) # 2
       THEN /\ out' = Append(out, UsageError)
            /\ hostPc' = "idle"
            /\ UNCHANGED <<task, requests, calls, starts, startLocal>>
       ELSE /\ Len(starts) < MaxStarts
            /\ startCall("host", argv[2], result, addr)
            /\ hostPc' = "start"
    /\ UNCHANGED msgVars /\ UNCHANGED serialVars /\ UNCHANGED cmdVars

\* commands::host from the switch of dns::start to the first evaluation of
\* the wait loop's condition
hostSwitch ==
    /\ hostPc = "start"
    /\ startSwitch
    /\ hostPc' = IF task' # NoTask THEN "loop" ELSE "idle"
    /\ UNCHANGED hostLog
    /\ UNCHANGED msgVars /\ UNCHANGED serialVars /\ UNCHANGED cmdVars

hostLoop_returns_at_once ==
    /\ hostPc = "loop"
    /\ hostPc' = "idle"
    /\ UNCHANGED <<task, requests, calls, starts, hostLog, out>>
    /\ UNCHANGED startLocal
    /\ UNCHANGED msgVars /\ UNCHANGED serialVars /\ UNCHANGED cmdVars

\* commands::host: while (dns::started()) delay(100); the handler returns
\* on the first poll that finds the slot empty
hostLoop ==
    /\ hostPc = "loop"
    /\ IF started THEN hostPc' = "loop" ELSE hostPc' = "idle"
    /\ UNCHANGED <<task, requests, calls, starts, hostLog, out>>
    /\ UNCHANGED startLocal
    /\ UNCHANGED msgVars /\ UNCHANGED serialVars /\ UNCHANGED cmdVars

------------------------------------------------------------------------
\* Strings (Arduino String and C strings) as sequences of characters

LF == <<"\n">>
CRLF == <<"\r", "\n">>

Min(a, b) == IF a < b THEN a ELSE b

\* String::endsWith
endsWith(s, suffix) ==
    /\ Len(s) >= Len(suffix)
    /\ SubSeq(s, Len(s) - Len(suffix) + 1, Len(s)) = suffix

\* String::startsWith
startsWith(s, prefix) ==
    /\ Len(s) >= Len(prefix)
    /\ SubSeq(s, 1, Len(prefix)) = prefix

\* strncmp(a, b, n) == 0: the first n characters agree, a terminating NUL included
strncmpEqual(a, b, n) ==
    LET za == Append(a, "NUL")
        zb == Append(b, "NUL")
    IN  SubSeq(za, 1, Min(n, Len(za))) = SubSeq(zb, 1, Min(n, Len(zb)))

\* if (!cmd.endsWith("\r\n") && !cmd.endsWith("\n")) cmd += '\n';
terminated(cmd) ==
    IF ~endsWith(cmd, CRLF) /\ ~endsWith(cmd, LF) THEN cmd \o LF ELSE cmd

----------------------------------------------------------------------------
\* Message transports: namespaces mqtt, web, api (lines 512-686)

\* command texts a transport can deliver
Payloads ==
    {<<>>, <<"a">>, <<"\n">>, <<"a", "\n">>, <<"a", "\r", "\n">>, <<"a", "\r">>}

\* MQTT_TOPIC_CMD
MQTT_TOPIC_CMD == <<"c", "m", "d">>

\* what mqttMagnitude(topic) returns for the topics the broker delivers
Magnitudes == {<<"c", "m", "d">>, <<"c", "m", "d", "x">>, <<"r", "e", "l", "a", "y">>}

MqttTypes == {"MQTT_CONNECT_EVENT", "MQTT_DISCONNECT_EVENT", "MQTT_MESSAGE_EVENT"}

\* web-socket actions
Actions == {<<"c", "m", "d">>, <<"c", "m", "d", "x">>, <<"c", "m">>, <<"x">>}

ClientIds == {7}

\* JsonObject& data: whether it has the key "line", whether that is a string
Datas ==
    {[hasKey |-> FALSE, isString |-> FALSE, line |-> <<>>],
     [hasKey |-> TRUE, isString |-> FALSE, line |-> <<>>]}
    \cup {[hasKey |-> TRUE, isString |-> TRUE, line |-> p] : p \in Payloads}

\* the "line" parameter of an HTTP request
Params == {[present |-> FALSE, value |-> <<>>]}
          \cup {[present |-> TRUE, value |-> p] : p \in Payloads}

\* what a transport's callback was called with: the event type, the topic's
\* magnitude or the action, and the payload or "line" with whether it was
\* there and was a string
Input(via, type, sel, present, isString, line) ==
    [via |-> via, type |-> type, sel |-> sel,
     present |-> present, isString |-> isString, line |-> line]

NoInput == Input("none", "none", <<>>, FALSE, FALSE, <<>>)

Job(via, cmd, client_id) == [via |-> via, cmd |-> cmd, client_id |-> client_id]

\* schedule_function(fn): fn runs on a later iteration of the main loop, after
\* the functions scheduled before it
schedule_function(job) == jobs' = Append(jobs, job) /\ dispatched' = dispatched

\* AsyncWebPrint::scheduleFromRequest(request, fn)
scheduleFromRequest(job) == schedule_function(job)

\* api_find_and_call(cmd, out)
api_find_and_call(job) == dispatched' = Append(dispatched, job)

mqtt_inline(type, t, payload) ==
    /\ Len(accepted) < MaxMsgs
    /\ CASE type = "MQTT_CONNECT_EVENT" ->
              mqttSubscribed' = TRUE /\ UNCHANGED <<jobs, accepted, dispatched, httpResult>>
         [] type = "MQTT_MESSAGE_EVENT" /\ startsWith(t, MQTT_TOPIC_CMD) /\ Len(payload) # 0 ->
              LET cmd == terminated(payload)
              IN  /\ accepted' = Append(accepted, Job("mqtt", cmd, 0))
                  /\ api_find_and_call(Job("mqtt", cmd, 0))
                  /\ UNCHANGED <<mqttSubscribed, jobs, httpResult>>
         [] OTHER -> UNCHANGED queueVars
    /\ UNCHANGED dnsVars /\ UNCHANGED serialVars /\ UNCHANGED cmdVars

\* the callback mqtt::setup registers (lines 516-547); t is mqttMagnitude(topic)
mqttCallback(type, t, payload) ==
    /\ Len(accepted) < MaxMsgs
    /\ CASE type = "MQTT_CONNECT_EVENT" ->
              mqttSubscribed' = TRUE /\ UNCHANGED <<jobs, accepted, dispatched, httpResult>>
         [] type = "MQTT_MESSAGE_EVENT" /\ startsWith(t, MQTT_TOPIC_CMD) /\ Len(payload) # 0 ->
              LET cmd == terminated(payload)
              IN  /\ accepted' = Append(accepted, Job("mqtt", cmd, 0))
                  /\ schedule_function(Job("mqtt", cmd, 0))
                  /\ UNCHANGED <<mqttSubscribed, httpResult>>
         [] OTHER -> UNCHANGED queueVars
    /\ UNCHANGED dnsVars /\ UNCHANGED serialVars /\ UNCHANGED cmdVars

\* web::onAction (lines 561-587)
onAction(client_id, action, data) ==
    /\ Len(accepted) < MaxMsgs
    /\ IF /\ strncmpEqual(action, <<"c", "m", "d">>, 3)
          /\ data.hasKey /\ data.isString
          /\ Len(data.line) # 0
       THEN /\ accepted' = Append(accepted, Job("ws", data.line, client_id))
            /\ schedule_function(Job("ws", data.line, client_id))
            /\ UNCHANGED <<mqttSubscribed, httpResult>>
       ELSE UNCHANGED queueVars
    /\ UNCHANGED dnsVars /\ UNCHANGED serialVars /\ UNCHANGED cmdVars

\* the handler api::setup registers with apiRegister (API_SUPPORT builds,
\* lines 624-644); api.param returns an empty String for a missing parameter
apiHandler(param) ==
    /\ Len(accepted) < MaxMsgs
    /\ LET cmd == IF param.present THEN param.value ELSE <<>>
       IN  IF Len(cmd) = 0
           THEN /\ httpResult' = "false"
                /\ UNCHANGED <<mqttSubscribed, jobs, accepted, dispatched>>
           ELSE /\ accepted' = Append(accepted, Job("http", terminated(cmd), 0))
                /\ scheduleFromRequest(Job("http", terminated(cmd), 0))
                /\ httpResult' = "true"
                /\ UNCHANGED mqttSubscribed
    /\ UNCHANGED dnsVars /\ UNCHANGED serialVars /\ UNCHANGED cmdVars

\* the handler api::setup registers with webRequestRegister (builds without
\* API_SUPPORT, lines 647-681)
webRequestHandler(pathMatches, authenticated, param) ==
    /\ Len(accepted) < MaxMsgs
    /\ CASE ~pathMatches ->
              /\ httpResult' = "false"
              /\ UNCHANGED <<mqttSubscribed, jobs, accepted, dispatched>>
         [] pathMatches /\ ~authenticated ->
              /\ httpResult' = "true, sent 403"
              /\ UNCHANGED <<mqttSubscribed, jobs, accepted, dispatched>>
         [] pathMatches /\ authenticated /\ (~param.present \/ Len(param.value) = 0) ->
              /\ httpResult' = "true, sent 500"
              /\ UNCHANGED <<mqttSubscribed, jobs, accepted, dispatched>>
         [] OTHER ->
              /\ accepted' = Append(accepted, Job("http", terminated(param.value), 0))
              /\ scheduleFromRequest(Job("http", terminated(param.value), 0))
              /\ httpResult' = "true"
              /\ UNCHANGED mqttSubscribed
    /\ UNCHANGED dnsVars /\ UNCHANGED serialVars /\ UNCHANGED cmdVars

\* the main loop runs the oldest scheduled function (lines 535-543, 576-586,
\* 638-640): the dispatcher call with the captured command
runScheduled ==
    /\ jobs # <<>>
    /\ api_find_and_call(Head(jobs))
    /\ jobs' = Tail(jobs)
    /\ UNCHANGED <<mqttSubscribed, accepted, httpResult>>
    /\ UNCHANGED dnsVars /\ UNCHANGED serialVars /\ UNCHANGED cmdVars

----------------------------------------------------------------------------
\* Serial transport: LineBuffer and serial::loop (lines 459-510)

\* bytes the serial port can deliver
Chars == {"a", "\r", "\n"}

\* build::serialBufferSize(): TERMINAL_SERIAL_BUFFER_SIZE, scaled down
serialBufferSize == 4

\* the line-length bound of LineBuffer, scaled down
LineLimit == 2

SerialOverflow == "Serial buffer overflow"
LineOverflow == "Command line buffer overflow"

\* a newly constructed LineBuffer; also LineBuffer::reset()
EmptyBuffer == [data |-> <<>>, overflow |-> FALSE]

\* LineBuffer::overflow()
bufOverflow(b) == b.overflow

\* LineBuffer::append(data, length): what fits is appended; when more was
\* offered than fits, raw-overflow is set and the remainder dropped
bufAppend(b, bytes) ==
    LET room == serialBufferSize - Len(b.data)
    IN  IF b.overflow
        THEN b
        ELSE IF Len(bytes) > room
             THEN [data |-> b.data \o SubSeq(bytes, 1, room), overflow |-> TRUE]
             ELSE [data |-> b.data \o bytes, overflow |-> FALSE]

\* index of the first "\n" of s, 0 when there is none
FirstLF(s) ==
    IF \E i \in 1..Len(s) : s[i] = "\n"
    THEN CHOOSE i \in 1..Len(s) : s[i] = "\n" /\ \A j \in 1..(i - 1) : s[j] # "\n"
    ELSE 0

\* the text before a terminator, a "\r" preceding the "\n" dropped
StripCR(s) == IF Len(s) > 0 /\ s[Len(s)] = "\r" THEN SubSeq(s, 1, Len(s) - 1) ELSE s

\* LineBuffer::line(): the result (line, overflow) and the buffer afterwards
bufLine(b) ==
    LET eol == FirstLF(b.data)
    IN  IF eol # 0
        THEN [line |-> StripCR(SubSeq(b.data, 1, eol - 1)),
              overflow |-> FALSE,
              buf |-> [b EXCEPT !.data = SubSeq(b.data, eol + 1, Len(b.data))]]
        ELSE IF Len(b.data) > LineLimit
             THEN [line |-> <<>>, overflow |-> TRUE, buf |-> [b EXCEPT !.data = <<>>]]
             ELSE [line |-> <<>>, overflow |-> FALSE, buf |-> b]

RECURSIVE drain(_, _, _)
\* the for (;;) loop of serial::loop (lines 494-506): the buffer it leaves,
\* the errors it wrote to the port and the lines it handed to find_and_call
drain(b, errors, found) ==
    LET result == bufLine(b)
    IN  IF result.overflow
        THEN drain(result.buf, Append(errors, LineOverflow), found)
        ELSE IF Len(result.line) = 0
             THEN [buf |-> result.buf, errors |-> errors, found |-> found]
             ELSE drain(result.buf, errors, Append(found, result.line))

NoCycle == [raw |-> FALSE, errors |-> 0, lines |-> 0]

serialLoop_noreset(available) ==
    /\ Len(rx) + Len(available) <= MaxRx
    /\ IF Len(available) <= 0
       THEN UNCHANGED serialVars
       ELSE LET appended == bufAppend(buffer, available)
                raw == bufOverflow(appended)
                d == drain(appended, IF raw THEN <<SerialOverflow>> ELSE <<>>, <<>>)
            IN  /\ buffer' = d.buf
                /\ port' = port \o d.errors
                /\ lines' = lines \o d.found
                /\ rx' = rx \o available
                /\ cycle' = [raw |-> raw, errors |-> Len(d.errors), lines |-> Len(d.found)]
                /\ serialPc' = serialPc
    /\ UNCHANGED dnsVars /\ UNCHANGED msgVars /\ UNCHANGED cmdVars

\* serial::loop (lines 462-507) as built for a recent Core (the #else branch,
\* lines 479-486), with the bytes port.peekBuffer() holds
serialLoop(available) ==
    /\ Len(rx) + Len(available) <= MaxRx
    /\ IF Len(available) <= 0
       THEN UNCHANGED serialVars
       ELSE LET appended == bufAppend(buffer, available)
                raw == bufOverflow(appended)
                d == drain(IF raw THEN EmptyBuffer ELSE appended,
                           IF raw THEN <<SerialOverflow>> ELSE <<>>, <<>>)
            IN  /\ buffer' = d.buf
                /\ port' = port \o d.errors
                /\ lines' = lines \o d.found
                /\ rx' = rx \o available
                /\ cycle' = [raw |-> raw, errors |-> Len(d.errors), lines |-> Len(d.found)]
                /\ serialPc' = serialPc
    /\ UNCHANGED dnsVars /\ UNCHANGED msgVars /\ UNCHANGED cmdVars

\* serial::loop up to the drain loop (lines 462-492): read, append, report
\* and reset on raw overflow
serialPoll(available) ==
    /\ serialPc = "idle"
    /\ Len(rx) + Len(available) <= MaxRx
    /\ IF Len(available) <= 0
       THEN UNCHANGED serialVars
       ELSE LET appended == bufAppend(buffer, available)
                raw == bufOverflow(appended)
            IN  /\ buffer' = IF raw THEN EmptyBuffer ELSE appended
                /\ port' = IF raw THEN Append(port, SerialOverflow) ELSE port
                /\ lines' = lines
                /\ rx' = rx \o available
                /\ cycle' = [raw |-> raw, errors |-> IF raw THEN 1 ELSE 0, lines |-> 0]
                /\ serialPc' = "drain"
    /\ UNCHANGED dnsVars /\ UNCHANGED msgVars /\ UNCHANGED cmdVars

serialDrain_breaks_on_overflow ==
    /\ serialPc = "drain"
    /\ LET result == bufLine(buffer)
       IN  /\ buffer' = result.buf
           /\ IF result.overflow
              THEN /\ port' = Append(port, LineOverflow)
                   /\ cycle' = [cycle EXCEPT !.errors = @ + 1]
                   /\ UNCHANGED lines
                   /\ serialPc' = "idle"
              ELSE IF Len(result.line) = 0
                   THEN /\ serialPc' = "idle"
                        /\ UNCHANGED <<port, lines, cycle>>
                   ELSE /\ lines' = Append(lines, result.line)
                        /\ cycle' = [cycle EXCEPT !.lines = @ + 1]
                        /\ UNCHANGED <<port, serialPc>>
    /\ UNCHANGED rx
    /\ UNCHANGED dnsVars /\ UNCHANGED msgVars /\ UNCHANGED cmdVars

serialDrain_continues_on_empty ==
    /\ serialPc = "drain"
    /\ LET result == bufLine(buffer)
       IN  /\ buffer' = result.buf
           /\ IF result.overflow
              THEN /\ port' = Append(port, LineOverflow)
                   /\ cycle' = [cycle EXCEPT !.errors = @ + 1]
                   /\ UNCHANGED <<lines, serialPc>>
              ELSE IF Len(result.line) = 0
                   THEN UNCHANGED <<port, lines, cycle, serialPc>>
                   ELSE /\ lines' = Append(lines, result.line)
                        /\ cycle' = [cycle EXCEPT !.lines = @ + 1]
                        /\ UNCHANGED <<port, serialPc>>
    /\ UNCHANGED rx
    /\ UNCHANGED dnsVars /\ UNCHANGED msgVars /\ UNCHANGED cmdVars

\* one iteration of the for (;;) loop of serial::loop (lines 494-506)
serialDrain ==
    /\ serialPc = "drain"
    /\ LET result == bufLine(buffer)
       IN  /\ buffer' = result.buf
           /\ IF result.overflow
              THEN /\ port' = Append(port, LineOverflow)
                   /\ cycle' = [cycle EXCEPT !.errors = @ + 1]
                   /\ UNCHANGED <<lines, serialPc>>
              ELSE IF Len(result.line) = 0
                   THEN /\ serialPc' = "idle"
                        /\ UNCHANGED <<port, lines, cycle>>
                   ELSE /\ lines' = Append(lines, result.line)
                        /\ cycle' = [cycle EXCEPT !.lines = @ + 1]
                        /\ UNCHANGED <<port, serialPc>>
    /\ UNCHANGED rx
    /\ UNCHANGED dnsVars /\ UNCHANGED msgVars /\ UNCHANGED cmdVars

----------------------------------------------------------------------------
\* Commands: registry listing and HELP (lines 69-87, 430-455, 725-727)

\* command names: letters of both cases, some names prefixes of others
Names == {<<"a">>, <<"A", "b">>, <<"a", "B", "a">>, <<"B">>}

\* tolower
Lower(c) == CASE c = "A" -> "a" [] c = "B" -> "b" [] OTHER -> c

\* the character code strncasecmp compares at position i of s: the lowered
\* character, or the terminating NUL past the end
CodeAt(s, i) ==
    IF i > Len(s) THEN 0
    ELSE CASE Lower(s[i]) = "a" -> 1 [] Lower(s[i]) = "b" -> 2

\* strncasecmp_P(l, r, n)
strncasecmp(l, r, n) ==
    LET D == {i \in 1..n : CodeAt(l, i) # CodeAt(r, i)}
    IN  IF D = {} THEN 0
        ELSE LET i == CHOOSE k \in D : \A j \in D : k <= j
             IN  CodeAt(l, i) - CodeAt(r, i)

\* the comparator help passes to std::sort (lines 73-79)
helpLess(lhs, rhs) == strncasecmp(lhs, rhs, Len(lhs)) < 0

\* std::sort as libstdc++ runs it (bits/stl_algo.h, bits/stl_heap.h). An array
\* is a sequence, a range [first, last) a pair of its positions.

\* _S_threshold: ranges longer than this are partitioned
S_threshold == 16

\* TRUE for every array; a loop asks it of the array a round has made, so
\* that the array is computed before the next round starts
computed(a) == Len(a) >= 0

\* std::iter_swap
iterSwap(a, i, j) == [a EXCEPT ![i] = a[j], ![j] = a[i]]

\* std::move_backward(to, from, from + 1); *to = val: the element at `from`
\* goes to `to`, the ones between move up by one
moveDown(a, from, to) ==
    [i \in 1..Len(a) |->
        IF i < to \/ i > from THEN a[i]
        ELSE IF i = to THEN a[from] ELSE a[i - 1]]

\* std::__unguarded_linear_insert(last, comp): the element at `last` goes
\* down past every element it compares less than; the scan has no bound of
\* its own and ends here at the front of the array at the latest
unguardedLinearInsert(a, last) ==
    LET stop == CHOOSE k \in 0..(last - 1) :
                    /\ k = 0 \/ ~helpLess(a[last], a[k])
                    /\ \A j \in (k + 1)..(last - 1) : helpLess(a[last], a[j])
    IN  moveDown(a, last, stop + 1)

RECURSIVE insertionSortFrom(_, _, _, _)
\* the loop of std::__insertion_sort, from position i on
insertionSortFrom(a, first, i, last) ==
    IF i >= last THEN a
    ELSE LET b == IF helpLess(a[i], a[first])
                  THEN moveDown(a, i, first)
                  ELSE unguardedLinearInsert(a, i)
         IN  IF computed(b) THEN insertionSortFrom(b, first, i + 1, last) ELSE b

\* std::__insertion_sort(first, last, comp)
insertionSort(a, first, last) ==
    IF first = last THEN a ELSE insertionSortFrom(a, first, first + 1, last)

RECURSIVE unguardedInsertionSort(_, _, _)
\* std::__unguarded_insertion_sort(first, last, comp)
unguardedInsertionSort(a, first, last) ==
    IF first >= last THEN a
    ELSE LET b == unguardedLinearInsert(a, first)
         IN  IF computed(b) THEN unguardedInsertionSort(b, first + 1, last) ELSE b

\* std::__final_insertion_sort(first, last, comp)
finalInsertionSort(a, first, last) ==
    IF last - first > S_threshold
    THEN unguardedInsertionSort(insertionSort(a, first, first + S_threshold),
                                first + S_threshold, last)
    ELSE insertionSort(a, first, last)

\* std::__move_median_to_first(result, x, y, z, comp)
moveMedianToFirst(a, result, x, y, z) ==
    IF helpLess(a[x], a[y])
    THEN IF helpLess(a[y], a[z]) THEN iterSwap(a, result, y)
         ELSE IF helpLess(a[x], a[z]) THEN iterSwap(a, result, z)
         ELSE iterSwap(a, result, x)
    ELSE IF helpLess(a[x], a[z]) THEN iterSwap(a, result, x)
         ELSE IF helpLess(a[y], a[z]) THEN iterSwap(a, result, z)
         ELSE iterSwap(a, result, y)

RECURSIVE unguardedPartition(_, _, _, _)
\* std::__unguarded_partition(first, last, pivot, comp): the array it leaves
\* and the cut it returns
unguardedPartition(a, first, last, pivot) ==
    LET up == CHOOSE k \in first..Len(a) :
                  /\ ~helpLess(a[k], a[pivot])
                  /\ \A j \in first..(k - 1) : helpLess(a[j], a[pivot])
        down == CHOOSE k \in 1..(last - 1) :
                    /\ ~helpLess(a[pivot], a[k])
                    /\ \A j \in (k + 1)..(last - 1) : helpLess(a[pivot], a[j])
        b == iterSwap(a, up, down)
    IN  IF ~(up < down)
        THEN [a |-> a, cut |-> up]
        ELSE IF computed(b) THEN unguardedPartition(b, up + 1, down, pivot)
             ELSE [a |-> b, cut |-> up]

\* std::__unguarded_partition_pivot(first, last, comp)
unguardedPartitionPivot(a, first, last) ==
    LET mid == first + (last - first) \div 2
    IN  unguardedPartition(moveMedianToFirst(a, first, first + 1, mid, last - 1),
                           first + 1, last, first)

RECURSIVE pushHeap(_, _, _, _, _)
\* std::__push_heap(first, holeIndex, topIndex, value, comp); the parent of
\* holeIndex is (holeIndex - 1) / 2
pushHeap(a, first, holeIndex, topIndex, value) ==
    IF holeIndex > topIndex /\ helpLess(a[first + (holeIndex - 1) \div 2], value)
    THEN pushHeap([a EXCEPT ![first + holeIndex] = a[first + (holeIndex - 1) \div 2]],
                  first, (holeIndex - 1) \div 2, topIndex, value)
    ELSE [a EXCEPT ![first + holeIndex] = value]

\* the child std::__adjust_heap moves up: of the right child and the one to
\* its left, the one that does not compare less
secondChildOf(a, first, right) ==
    IF helpLess(a[first + right], a[first + (right - 1)]) THEN right - 1 ELSE right

RECURSIVE siftDown(_, _, _, _, _)
\* one round of that loop: the child goes into the hole and leaves the hole
siftInto(a, first, holeIndex, child, len) ==
    siftDown([a EXCEPT ![first + holeIndex] = a[first + child]], first, child, child, len)

\* the while loop of std::__adjust_heap: the array and the hole it ends with
siftDown(a, first, holeIndex, secondChild, len) ==
    IF secondChild < (len - 1) \div 2
    THEN siftInto(a, first, holeIndex, secondChildOf(a, first, 2 * (secondChild + 1)), len)
    ELSE [a |-> a, holeIndex |-> holeIndex, secondChild |-> secondChild]

\* std::__adjust_heap after its loop left s: the lone left child of an even
\* length goes up too, then the value is pushed in
adjustHeapEnd(s, first, topIndex, len, value) ==
    IF len % 2 = 0 /\ s.secondChild = (len - 2) \div 2
    THEN pushHeap([s.a EXCEPT ![first + s.holeIndex] =
                                  s.a[first + (2 * (s.secondChild + 1) - 1)]],
                  first, 2 * (s.secondChild + 1) - 1, topIndex, value)
    ELSE pushHeap(s.a, first, s.holeIndex, topIndex, value)

\* std::__adjust_heap(first, holeIndex, len, value, comp)
adjustHeap(a, first, holeIndex, len, value) ==
    adjustHeapEnd(siftDown(a, first, holeIndex, holeIndex, len),
                  first, holeIndex, len, value)

RECURSIVE makeHeapFrom(_, _, _, _)
\* the end of a round of std::__make_heap's loop
makeHeapNext(b, first, len, parent) ==
    IF parent = 0 \/ ~computed(b) THEN b ELSE makeHeapFrom(b, first, len, parent - 1)

\* the loop of std::__make_heap, from `parent` down to 0
makeHeapFrom(a, first, len, parent) ==
    makeHeapNext(adjustHeap(a, first, parent, len, a[first + parent]),
                 first, len, parent)

\* std::__make_heap(first, last, comp)
makeHeap(a, first, last) ==
    IF last - first < 2 THEN a
    ELSE makeHeapFrom(a, first, last - first, (last - first - 2) \div 2)

\* std::__pop_heap(first, last, result, comp)
popHeap(a, first, last, result) ==
    adjustHeap([a EXCEPT ![result] = a[first]], first, 0, last - first, a[result])

RECURSIVE sortHeap(_, _, _)
\* the end of a round of std::__sort_heap's loop
sortHeapNext(b, first, last) ==
    IF computed(b) THEN sortHeap(b, first, last) ELSE b

\* std::__sort_heap(first, last, comp)
sortHeap(a, first, last) ==
    IF last - first > 1
    THEN sortHeapNext(popHeap(a, first, last - 1, last - 1), first, last - 1)
    ELSE a

\* std::__partial_sort(first, last, last, comp)
partialSort(a, first, last) == sortHeap(makeHeap(a, first, last), first, last)

RECURSIVE introsortLoop(_, _, _, _)
\* std::__introsort_loop(first, last, depth_limit, comp)
introsortLoop(a, first, last, depth_limit) ==
    IF last - first > S_threshold
    THEN IF depth_limit = 0
         THEN partialSort(a, first, last)
         ELSE LET p == unguardedPartitionPivot(a, first, last)
                  b == introsortLoop(p.a, p.cut, last, depth_limit - 1)
              IN  IF computed(b) THEN introsortLoop(b, first, p.cut, depth_limit - 1)
                  ELSE b
    ELSE a

RECURSIVE lg(_)
\* std::__lg(n): the floor of the binary logarithm
lg(n) == IF n <= 1 THEN 0 ELSE 1 + lg(n \div 2)

\* std::sort(names.begin(), names.end(), comparator)
stdSort(s) ==
    IF s = <<>> THEN <<>>
    ELSE finalInsertionSort(introsortLoop(s, 1, Len(s) + 1, 2 * lg(Len(s))),
                            1, Len(s) + 1)

\* what a handler writes to ctx.output
Text(t) == [kind |-> "text", text |-> t]
StatusOK == [kind |-> "ok", text |-> <<>>]
StatusError(t) == [kind |-> "error", text |-> t]

\* no handler has run yet
NoRun == [cmd |-> "none", out |-> <<>>, deferred |-> "no"]

\* terminalRegisterCommand(name, func) (lines 725-727), for a name not yet
\* registered in either case
terminalRegisterCommand(name) ==
    /\ Len(registry) < MaxNames
    /\ \A i \in 1..Len(registry) :
           strncasecmp(registry[i], name, Len(name) + Len(registry[i])) # 0
    /\ registry' = Append(registry, name)
    /\ UNCHANGED <<ran, layouts>>
    /\ UNCHANGED dnsVars /\ UNCHANGED msgVars /\ UNCHANGED serialVars

\* commands::help (lines 69-87)
help ==
    /\ LET names == stdSort(registry)
       IN  ran' = [cmd |-> "HELP",
                   out |-> <<Text(<<"Available commands:">>)>>
                           \o [i \in 1..Len(names) |-> Text(names[i])]
                           \o <<StatusOK>>,
                   deferred |-> "no"]
    /\ UNCHANGED <<registry, layouts>>
    /\ UNCHANGED dnsVars /\ UNCHANGED msgVars /\ UNCHANGED serialVars

----------------------------------------------------------------------------
\* Commands: the other built-in handlers (lines 89-106, 204-267, 405-427)
\* in the build with SECURE_CLIENT_BEARSSL and SYSTEM_CHECK_ENABLED, where
\* commands::setup registers all of them

\* argument counts a command line can carry
Argcs == 1..3

\* a handler ran to its end: what it wrote, and whether it left a reboot
\* pending ("reboot") or never returned ("trap")
Run(cmd, output, deferred) == [cmd |-> cmd, out |-> output, deferred |-> deferred]

\* a handler other than STORAGE leaves everything but ctx.output alone
HandlerFrame ==
    /\ UNCHANGED <<registry, layouts>>
    /\ UNCHANGED dnsVars /\ UNCHANGED msgVars /\ UNCHANGED serialVars

\* commands::netstat (lines 89-106): one line per pcb of the three lists
netstat(pcbs) ==
    /\ ran' = Run("NETSTAT", [i \in 1..pcbs |-> Text(<<"state">>)], "no")
    /\ HandlerFrame

\* commands::mfln_probe (lines 204-222)
mfln_probe(argc, supported) ==
    /\ ran' = IF argc # 3
              THEN Run("MFLN.PROBE", <<StatusError(<<"<url> <value>">>)>>, "no")
              ELSE IF supported
                   THEN Run("MFLN.PROBE", <<StatusOK>>, "no")
                   ELSE Run("MFLN.PROBE",
                            <<StatusError(<<"Buffer size not supported">>)>>, "no")
    /\ HandlerFrame

\* commands::reset (lines 225-228)
reset ==
    /\ ran' = Run("RESET", <<StatusOK>>, "reboot")
    /\ HandlerFrame

\* commands::erase_config (lines 230-234)
erase_config ==
    /\ ran' = Run("ERASE.CONFIG", <<StatusOK>>, "reboot")
    /\ HandlerFrame

\* commands::heap (lines 236-242)
heap ==
    /\ ran' = Run("HEAP", <<Text(<<"initial">>), StatusOK>>, "no")
    /\ HandlerFrame

\* commands::uptime (lines 244-247)
uptime ==
    /\ ran' = Run("UPTIME", <<Text(<<"uptime">>), StatusOK>>, "no")
    /\ HandlerFrame

\* commands::info (lines 249-267) in the build that has STABLE, UNSTABLE and
\* TRAP (SYSTEM_CHECK_ENABLED), without SENSOR_SUPPORT and DEBUG_SUPPORT
info ==
    /\ ran' = Run("INFO", <<Text(<<"built">>), Text(<<"mcu">>), Text(<<"sdk">>),
                           Text(<<"md5">>), Text(<<"support">>), Text(<<"system">>),
                           StatusOK>>, "no")
    /\ HandlerFrame

\* commands::adc (lines 405-412)
adc(argc) ==
    /\ ran' = Run("ADC", <<Text(<<"value">>), StatusOK>>, "no")
    /\ HandlerFrame

\* commands::stable (lines 415-418)
stable ==
    /\ ran' = Run("STABLE", <<>>, "reboot")
    /\ HandlerFrame

\* commands::unstable (lines 420-423)
unstable ==
    /\ ran' = Run("UNSTABLE", <<>>, "reboot")
    /\ HandlerFrame

\* commands::trap (lines 425-427)
trap ==
    /\ ran' = Run("TRAP", <<>>, "trap")
    /\ HandlerFrame

----------------------------------------------------------------------------
\* Commands: flash layout and STORAGE (lines 269-403)

\* SPI_FLASH_SEC_SIZE, FLASH_SECTOR_SIZE: bytes in a flash sector
SPI_FLASH_SEC_SIZE == 4096

\* Every address and size of the layout is a whole number of sectors, and is
\* kept here as that number: a uint32_t count of bytes is a count of sectors
\* modulo 2^32 / 4096
Word == 2^20

\* uint32_t subtraction
Sub32(a, b) == (a - b + Word) % Word

\* Layout(name, start, end)
Layout(name, from, to) == [name |-> name, start |-> from, end |-> to]

\* Layout::size()
LayoutSize(l) == Sub32(l.end, l.start)

\* Layouts(size); last is history: the last call made on the object, or that
\* STORAGE made it, and the size the call was given
Layouts(size) ==
    [size |-> size, current |-> size, list |-> <<>>, lock |-> FALSE,
     last |-> [op |-> "new", size |-> size]]

\* Layouts::size()
LayoutsSize(L) == Sub32(L.size, L.current)

add_unguarded(L, name, size) ==
    IF ~L.lock
    THEN LET layout == Layout(name, Sub32(L.current, size), L.current)
         IN  [L EXCEPT !.current = Sub32(L.current, LayoutSize(layout)),
                       !.list = <<layout>> \o L.list,
                       !.last = [op |-> "add", size |-> size]]
    ELSE [L EXCEPT !.last = [op |-> "add", size |-> size]]

\* Layouts::add(name, size) (lines 341-349)
add(L, name, size) ==
    IF ~L.lock /\ L.current >= size
    THEN LET layout == Layout(name, Sub32(L.current, size), L.current)
         IN  [L EXCEPT !.current = Sub32(L.current, LayoutSize(layout)),
                       !.list = <<layout>> \o L.list,
                       !.last = [op |-> "add", size |-> size]]
    ELSE [L EXCEPT !.last = [op |-> "add", size |-> size]]

\* flash chip sizes, in sectors: 1 and 4 megabytes
FlashSizes == {256, 1024}

\* sizes asked of add, in sectors, the largest a wrapped-around difference
AddSizes == {0, 1, 4, 256, Word - 3}

\* eepromSpace(), in sectors
EepromSpaces == {1, 2}

\* ESP.getSketchSize(), in bytes
SketchSizes == {300000, 1028000, 1040000}

\* no Layouts has been constructed
NoLayouts == [size |-> 0, current |-> 0, list |-> <<>>, lock |-> FALSE,
              last |-> [op |-> "none", size |-> 0]]

\* a caller constructs a Layouts
NewLayouts(size) ==
    /\ layouts' = Layouts(size)
    /\ UNCHANGED <<registry, ran>>
    /\ UNCHANGED dnsVars /\ UNCHANGED msgVars /\ UNCHANGED serialVars

\* a caller calls add on the Layouts it constructed
LayoutsAdd(name, size) ==
    /\ layouts # NoLayouts
    /\ Len(layouts.list) < MaxRegions
    /\ layouts' = add(layouts, name, size)
    /\ UNCHANGED <<registry, ran>>
    /\ UNCHANGED dnsVars /\ UNCHANGED msgVars /\ UNCHANGED serialVars

\* Layouts::lock() (lines 322-329)
LayoutsLock ==
    /\ layouts # NoLayouts
    /\ layouts' = [layouts EXCEPT !.lock = TRUE, !.last = [op |-> "lock", size |-> 0]]
    /\ UNCHANGED <<registry, ran>>
    /\ UNCHANGED dnsVars /\ UNCHANGED msgVars /\ UNCHANGED serialVars

\* commands::storage (lines 366-403), for what the ESP object and eepromSpace
\* answer: the real and the SDK chip size and the eeprom space in sectors, the
\* sketch size in bytes
storage(realSize, sdkSize, eeprom, sketchSize) ==
    LET l0 == Layouts(realSize)
        l1 == IF realSize > sdkSize THEN add(l0, "unused", Sub32(realSize, sdkSize)) ELSE l0
        l2 == add(l1, "sdk", 4)
        l3 == add(l2, "eeprom", eeprom)
        app_size == ((sketchSize + SPI_FLASH_SEC_SIZE - 1) \div SPI_FLASH_SEC_SIZE) % Word
        ota_size == Sub32(l3.current, app_size)
        l4 == add(l3, "ota", ota_size)
        l5 == add(l4, "app", app_size)
    IN  /\ layouts' = [l5 EXCEPT !.last = [op |-> "storage", size |-> app_size]]
        /\ ran' = Run("STORAGE",
                      <<Text(<<"flash chip ID">>), Text(<<"speed">>),
                        Text(<<"mode">>), Text(<<"size">>)>>
                      \o [i \in 1..Len(l5.list) |-> Text(<<l5.list[i].name>>)]
                      \o <<StatusOK>>,
                      "no")
        /\ UNCHANGED registry
        /\ UNCHANGED dnsVars /\ UNCHANGED msgVars /\ UNCHANGED serialVars


----------------------------------------------------------------------------

Init ==
    /\ task = NoTask
    /\ requests = <<>>
    /\ calls = <<>>
    /\ starts = <<>>
    /\ hostPc = "idle"
    /\ hostLog = <<>>
    /\ out = <<>>
    /\ mqttSubscribed = FALSE
    /\ jobs = <<>>
    /\ accepted = <<>>
    /\ dispatched = <<>>
    /\ httpResult = "none"
    /\ buffer = EmptyBuffer
    /\ rx = <<>>
    /\ port = <<>>
    /\ lines = <<>>
    /\ cycle = NoCycle
    /\ serialPc = "idle"
    /\ registry = <<>>
    /\ ran = NoRun
    /\ layouts = NoLayouts
    /\ startLocal = NoLocal
    /\ received = NoInput

DnsNext ==
    \/ \E h \in Hostnames, r \in Results, a \in Addrs : DnsStart(h, r, a)
    \/ \E i \in 1..Len(requests), a \in Addrs \cup {NULL} : DnsFound(i, a)
    \/ \E argv \in Argvs, r \in Results, a \in Addrs : host(argv, r, a)
    \/ hostLoop

DnsSpec == Init /\ [][DnsNext]_vars

MsgNext ==
    \/ \E ty \in MqttTypes, t \in Magnitudes, p \in Payloads :
           mqttCallback(ty, t, p) /\ UNCHANGED received
    \/ \E c \in ClientIds, a \in Actions, d \in Datas :
           onAction(c, a, d) /\ UNCHANGED received
    \/ \E p \in Params :
           apiHandler(p) /\ UNCHANGED received
    \/ \E m \in BOOLEAN, au \in BOOLEAN, p \in Params :
           webRequestHandler(m, au, p) /\ UNCHANGED received
    \/ runScheduled /\ UNCHANGED received

MsgSpec == Init /\ [][MsgNext]_vars

SerialNext == \E available \in SeqsUpTo(Chars, MaxChunk) : serialLoop(available)

SerialSpec == Init /\ [][SerialNext]_vars

CmdNext ==
    \/ \E name \in Names : terminalRegisterCommand(name)
    \/ help
    \/ \E pcbs \in 0..MaxPcbs : netstat(pcbs)
    \/ \E argc \in Argcs, supported \in BOOLEAN : mfln_probe(argc, supported)
    \/ reset
    \/ erase_config
    \/ heap
    \/ uptime
    \/ info
    \/ \E argc \in Argcs : adc(argc)
    \/ stable
    \/ unstable
    \/ trap

CmdSpec == Init /\ [][CmdNext]_vars

\* serial::loop with every iteration of its drain loop a step of its own
StepSerialNext ==
    \/ \E available \in SeqsUpTo(Chars, MaxChunk) : serialPoll(available)
    \/ serialDrain

\* the drain loop is straight-line code: it keeps running until it breaks
StepSerialSpec == Init /\ [][StepSerialNext]_vars /\ WF_vars(serialDrain)

\* the flash layout: any sequence of calls on a Layouts, and STORAGE
LayoutNext ==
    \/ \E size \in FlashSizes : NewLayouts(size)
    \/ \E name \in {"x"}, size \in AddSizes : LayoutsAdd(name, size)
    \/ LayoutsLock
    \/ \E realSize \in FlashSizes, sdkSize \in FlashSizes,
          eeprom \in EepromSpaces, sketchSize \in SketchSizes :
           storage(realSize, sdkSize, eeprom, sketchSize)

LayoutSpec == Init /\ [][LayoutNext]_vars

\* the message transports one input at a time, each input recorded
GuardNext ==
    \/ \E ty \in MqttTypes, t \in Magnitudes, p \in Payloads :
           /\ Len(accepted) < MaxGuard
           /\ mqttCallback(ty, t, p)
           /\ received' = Input("mqtt", ty, t, TRUE, TRUE, p)
    \/ \E c \in ClientIds, a \in Actions, d \in Datas :
           /\ Len(accepted) < MaxGuard
           /\ onAction(c, a, d)
           /\ received' = Input("ws", "action", a, d.hasKey, d.isString, d.line)
    \/ \E p \in Params :
           /\ Len(accepted) < MaxGuard
           /\ apiHandler(p)
           /\ received' = Input("http", "api", <<>>, p.present, TRUE, p.value)
    \/ \E m \in BOOLEAN, au \in BOOLEAN, p \in Params :
           /\ Len(accepted) < MaxGuard
           /\ webRequestHandler(m, au, p)
           /\ received' = Input("http", "request", <<>>, p.present, TRUE, p.value)
    \/ runScheduled /\ UNCHANGED received

GuardSpec == Init /\ [][GuardNext]_vars

\* hostname resolution with dns::start in two steps, the resolver's completion
\* free to run between them
RaceDnsNext ==
    \/ \E argv \in Argvs, r \in Results, a \in Addrs : hostCall(argv, r, a)
    \/ hostSwitch
    \/ \E i \in 1..Len(requests), a \in Addrs \cup {NULL} : DnsFound(i, a)
    \/ hostLoop

RaceDnsSpec == Init /\ [][RaceDnsNext]_vars

\* the same steps, where the resolver delivers every completion it owes
\* (whenever it comes to run, between the two steps of dns::start included),
\* dns::start runs on from the resolver call to its switch, and delay(100)
\* returns
FairDnsSpec ==
    /\ RaceDnsSpec
    /\ WF_vars(\E i \in 1..Len(requests), a \in Addrs \cup {NULL} : DnsFound(i, a))
    /\ WF_vars(hostSwitch)
    /\ WF_vars(hostLoop)

----------------------------------------------------------------------------
\* Claims about the resolution task and HOST (specification DnsSpec)

Invocations(i) == {k \in 1..Len(calls) : calls[k].cb = i}

\* C1: a start issued while another task is Pending does not discard the
\* first caller's callback: the callback of every task that was stored in the
\* slot has been invoked, or the slot still holds that task (the later start
\* was rejected and left it there).
C1_FirstCallbackKept ==
    \A i \in 1..Len(starts) :
        starts[i].result = ERR_INPROGRESS =>
            (task.id = i \/ Invocations(i) # {})

C2_AtMostOnce == \A i \in 1..Len(starts) : Cardinality(Invocations(i)) <= 1

C2_FoundStep ==
    Len(requests') < Len(requests) =>
        IF task # NoTask
        THEN /\ Len(calls') = Len(calls) + 1
             /\ SubSeq(calls', 1, Len(calls)) = calls
             /\ Last(calls').cb = task.id
             /\ task' = NoTask
        ELSE UNCHANGED <<task, calls, out>>

\* C2: a resolver completion that finds a Pending task invokes the stored
\* callback once and empties the slot; a completion that finds the slot Idle
\* invokes nothing and changes nothing; no callback is ever invoked twice.
C2_ExactlyOnceThenIdle == [](C2_AtMostOnce) /\ [][C2_FoundStep]_vars

C2_Witness ==
    /\ task = NoTask
    /\ \E k \in 1..Len(calls) : ~calls[k].inline
    /\ Cardinality({i \in 1..Len(starts) : starts[i].result = ERR_INPROGRESS})
            > Cardinality({k \in 1..Len(calls) : ~calls[k].inline})
    /\ requests = <<>>

\* C3: a start from Idle that the resolver answers at once with an address
\* invokes the callback inside start exactly once, with the task's hostname
\* and the resolved address, and leaves the slot Idle.
C3_ImmediateAnswer ==
    \A i \in 1..Len(starts) :
        (starts[i].result = ERR_OK /\ ~starts[i].pending) =>
            /\ Cardinality(Invocations(i)) = 1
            /\ \A k \in Invocations(i) :
                   calls[k] = [cb |-> i, name |-> starts[i].hostname,
                               addr |-> starts[i].addr, inline |-> TRUE]
            /\ starts[i].addr \in Addrs
            /\ ~starts[i].after

C3_Witness ==
    \E i \in 1..Len(starts) :
        /\ starts[i].result = ERR_OK /\ ~starts[i].pending
        /\ Invocations(i) # {}

\* C4: a start the resolver fails at once (neither ERR_OK nor ERR_INPROGRESS)
\* still invokes the callback inline, so HOST writes the failure to its
\* output; the slot stays Idle.
C4_ImmediateErrorReported ==
    \A i \in 1..Len(starts) :
        (starts[i].result \notin {ERR_OK, ERR_INPROGRESS} /\ ~starts[i].pending) =>
            /\ \E k \in Invocations(i) : calls[k].inline
            /\ starts[i].owner = "host" =>
                   \E j \in 1..Len(out) : out[j].name = starts[i].hostname
            /\ ~starts[i].after

C5_Step ==
    (Len(hostLog') > Len(hostLog) /\ Len(Last(hostLog')) # 2) =>
        /\ out' = Append(out, UsageError)
        /\ hostPc' = "idle"
        /\ UNCHANGED <<task, requests, starts, calls>>

\* C5: HOST with an argument count other than 2 writes one usage error and
\* returns without calling dns::start; slot and resolver are untouched.
C5_UsageErrorOnly == [][C5_Step]_vars

C5_Witness ==
    /\ \E i \in 1..Len(hostLog) : Len(hostLog[i]) = 1
    /\ \E i \in 1..Len(hostLog) : Len(hostLog[i]) = 3
    /\ \E j \in 1..Len(out) : out[j] = UsageError
    /\ started

\* HOST returns from a start or from its wait loop
C6_ReturnStep ==
    (hostPc' = "idle" /\ hostPc \in {"start", "loop"}) => task' = NoTask

\* C6 (specification FairDnsSpec): when the resolver delivers every completion
\* it owes, the wait loop of HOST exits and the handler returns, and the slot
\* is Idle when it returns.
C6_HostReturnsIdle ==
    /\ [](hostPc = "loop" => <>(hostPc = "idle"))
    /\ [][C6_ReturnStep]_vars

----------------------------------------------------------------------------
\* Claims about the message transports (specification MsgSpec)

\* C7: every command string a message transport hands to the dispatcher ends
\* with a line terminator.
C7_DispatchedTerminated ==
    \A i \in 1..Len(dispatched) : endsWith(dispatched[i].cmd, LF)

C8_Queue == accepted = dispatched \o jobs

C8_ReceiveStep ==
    accepted' # accepted =>
        /\ accepted' = Append(accepted, Last(accepted'))
        /\ jobs' = Append(jobs, Last(accepted'))
        /\ dispatched' = dispatched

C8_RunStep ==
    dispatched' # dispatched =>
        /\ jobs # <<>>
        /\ dispatched' = Append(dispatched, Head(jobs))
        /\ jobs' = Tail(jobs)
        /\ accepted' = accepted

\* C8: a receive callback only enqueues a job and never calls the dispatcher;
\* the dispatcher call is made later by the loop, once per accepted message
\* and in scheduling order.
C8_DeferredInOrder ==
    /\ [](C8_Queue)
    /\ [][C8_ReceiveStep]_vars
    /\ [][C8_RunStep]_vars

C8_Witness ==
    /\ Len(dispatched) >= 2
    /\ jobs # <<>>
    /\ {accepted[i].via : i \in 1..Len(accepted)} = {"mqtt", "ws", "http"}

----------------------------------------------------------------------------
\* Claims about the serial transport (specification SerialSpec)

RECURSIVE SplitLines(_)
\* the terminator-delimited lines of a byte stream, terminators stripped
SplitLines(s) ==
    IF FirstLF(s) = 0
    THEN <<>>
    ELSE <<StripCR(SubSeq(s, 1, FirstLF(s) - 1))>>
             \o SplitLines(SubSeq(s, FirstLF(s) + 1, Len(s)))

\* the lines of a sequence of lines that have text
NonBlank(ls) == SelectSeq(ls, LAMBDA l : Len(l) > 0)

\* C9: as long as no overflow was reported, the lines handed to find_and_call
\* are the terminator-delimited lines of the received byte stream, in order,
\* none missing, repeated or merged (blank lines, which the dispatcher
\* ignores, left aside).
C9_LinesInOrder == port = <<>> => lines = NonBlank(SplitLines(rx))

\* C10: a poll cycle whose append set raw-overflow writes one "Serial buffer
\* overflow" error and resets the buffer before extracting: the buffer is
\* empty with the flag cleared, and the cycle dispatched nothing.
C10_RawOverflowResets ==
    cycle.raw =>
        /\ buffer = EmptyBuffer
        /\ cycle.errors = 1
        /\ Last(port) = SerialOverflow
        /\ cycle.lines = 0

C10_Witness ==
    /\ cycle.raw
    /\ \E i \in 1..Len(rx) : rx[i] = "\n"
    /\ lines = <<>>

----------------------------------------------------------------------------
\* Claims about the drain loop (specifications StepSerialSpec, SerialSpec)

C11_Step ==
    (serialPc = "drain" /\ bufLine(buffer).overflow) =>
        /\ port' = Append(port, LineOverflow)
        /\ lines' = lines
        /\ serialPc' = "drain"
        /\ buffer' = EmptyBuffer

\* C11: an extraction result with overflow = true writes exactly one "Command
\* line buffer overflow" error, different from the raw-capacity one, hands
\* nothing to find_and_call, and the loop goes on with a buffer that holds
\* nothing of the discarded line.
C11_LineOverflowReported ==
    /\ [](LineOverflow # SerialOverflow)
    /\ [][C11_Step]_vars

C11_Witness ==
    /\ serialPc = "idle"
    /\ port = <<LineOverflow>>
    /\ lines = << <<"a">> >>
    /\ Len(rx) = MaxRx

\* C14: when a poll cycle that received bytes has finished, no complete line
\* is left in the buffer: every line with text whose terminator is buffered,
\* also one that follows a blank line, was handed to find_and_call.
C14_NoLineLeftBehind == NonBlank(SplitLines(buffer.data)) = <<>>

C15_Step ==
    serialPc = "drain" =>
        \/ Len(buffer'.data) < Len(buffer.data)
        \/ serialPc' = "idle"

\* C15: the drain loop ends in every poll cycle: each iteration consumes or
\* discards buffered bytes or leaves the loop.
C15_DrainTerminates ==
    /\ [](serialPc = "drain" => <>(serialPc = "idle"))
    /\ [][C15_Step]_vars

C15_Witness ==
    /\ serialPc = "idle"
    /\ cycle.errors >= 1
    /\ ~cycle.raw
    /\ buffer = EmptyBuffer

----------------------------------------------------------------------------
\* Claims about the commands (specification CmdSpec)

\* l is before r in case-insensitive lexicographic order
CaseLess(l, r) == strncasecmp(l, r, Len(l) + Len(r)) < 0

\* the names a HELP run wrote, in the order written
Listed(run) == [i \in 1..(Len(run.out) - 2) |-> run.out[i + 1].text]

C12_Step ==
    (ran' # ran /\ ran'.cmd = "HELP") =>
        /\ Len(Listed(ran')) = Len(registry)
        /\ \A i \in 1..Len(registry) :
               Cardinality({k \in 1..Len(registry) : Listed(ran')[k] = registry[i]}) = 1
        /\ \A i, j \in 1..Len(registry) :
               i < j => CaseLess(Listed(ran')[i], Listed(ran')[j])
        /\ Last(ran'.out) = StatusOK
        /\ Cardinality({k \in 1..Len(ran'.out) : ran'.out[k].kind # "text"}) = 1

\* C12: HELP writes every registered name exactly once, one per line, in
\* case-insensitive lexicographic order, then exactly one OK marker.
C12_HelpSorted == [][C12_Step]_vars

\* the terminal statuses in what a handler wrote
Statuses(output) == {k \in 1..Len(output) : output[k].kind # "text"}

\* C13: a built-in handler that returns without deferring its completion to
\* an async task or a reboot has written exactly one terminal status.
C13_OneStatus ==
    (ran.cmd # "none" /\ ran.deferred = "no") =>
        Cardinality(Statuses(ran.out)) = 1

----------------------------------------------------------------------------
\* More claims about hostname resolution (specification DnsSpec)

\* C17: the hostname delivered to a callback is the hostname passed to the
\* start call that supplied that callback.
C17_OwnHostname ==
    \A k \in 1..Len(calls) : calls[k].name = starts[calls[k].cb].hostname

\* the start call of the HOST invocation now running
HostStart == CHOOSE i \in 1..Len(starts) :
                 /\ starts[i].owner = "host"
                 /\ \A j \in (i + 1)..Len(starts) : starts[j].owner # "host"

C18_Step ==
    \A k \in (Len(calls) + 1)..Len(calls') :
        starts'[calls'[k].cb].owner = "host" =>
            \/ calls'[k].inline /\ hostPc = "idle" /\ Len(hostLog') > Len(hostLog)
            \/ hostPc = "loop" /\ calls'[k].cb = HostStart

\* C18: whenever the callback HOST passed to dns::start runs, start is still
\* executing inside that HOST handler or the handler is inside its wait loop.
C18_HostCallbackInsideHandler == [][C18_Step]_vars

\* the resolver's completion ran HOST's callback, and the handler returned
C18_Witness ==
    /\ hostPc = "idle"
    /\ \E k \in 1..Len(calls) : ~calls[k].inline /\ starts[calls[k].cb].owner = "host"

\* C16 (specification RaceDnsSpec, where the resolver's completion can run
\* between any two steps of dns::start): a task is in the slot only while the
\* resolver still holds a request whose completion will release it.
C16_NoLostCompletion == task # NoTask => requests # <<>>

----------------------------------------------------------------------------
\* More claims about the message transports (specification GuardSpec)

\* the input is one the transports are to act on: a non-empty payload on the
\* command topic, a "cmd" action with a non-empty string "line", an HTTP
\* request with a non-empty "line"
IsCommand(r) ==
    CASE r.via = "mqtt" ->
           r.type = "MQTT_MESSAGE_EVENT" /\ r.sel = MQTT_TOPIC_CMD /\ Len(r.line) > 0
      [] r.via = "ws" ->
           r.sel = <<"c", "m", "d">> /\ r.present /\ r.isString /\ Len(r.line) > 0
      [] r.via = "http" ->
           r.present /\ Len(r.line) > 0
      [] OTHER -> FALSE

C19_Step == Len(accepted') > Len(accepted) => IsCommand(received')

\* C19: an MQTT message with an empty payload or a topic outside the command
\* topic, a web-socket action other than "cmd" or with a missing, non-string
\* or empty "line", and an HTTP request with a missing or empty "line" each
\* schedule no job.
C19_OnlyCommandsScheduled == [][C19_Step]_vars

----------------------------------------------------------------------------
\* Claims about the flash layout (specification LayoutSpec)

RECURSIVE SumSizes(_)
SumSizes(list) ==
    IF list = <<>> THEN 0 ELSE LayoutSize(Head(list)) + SumSizes(Tail(list))

\* the regions are inside [0, size), contiguous from current() up to size,
\* pairwise non-overlapping, and size() is the sum of their sizes
C20_Regions ==
    layouts # NoLayouts =>
        LET list == layouts.list
            n == Len(list)
        IN  /\ \A i \in 1..n :
                   0 <= list[i].start /\ list[i].start <= list[i].end
                   /\ list[i].end <= layouts.size
            /\ \A i \in 1..(n - 1) : list[i].end = list[i + 1].start
            /\ \A i, j \in 1..n :
                   i # j => \/ list[i].end <= list[j].start
                            \/ list[j].end <= list[i].start
            /\ n > 0 => list[1].start = layouts.current /\ list[n].end = layouts.size
            /\ LayoutsSize(layouts) = SumSizes(list)

\* an add whose size exceeds current() changes nothing
C20_Step ==
    (layouts # NoLayouts /\ layouts'.last.op = "add"
     /\ layouts'.last.size > layouts.current) =>
        layouts' = [layouts EXCEPT !.last = layouts'.last]

\* C20: after any sequence of add calls, with 32-bit unsigned arithmetic and
\* STORAGE's wrapped ota_size included, the regions are non-overlapping,
\* contiguous and inside [0, S), the front region starts at current(), size()
\* is the sum of the region sizes, and an add whose size exceeds current()
\* changes nothing.
C20_LayoutsConsistent == [](C20_Regions) /\ [][C20_Step]_vars

\* STORAGE ran with a sketch larger than the space left: ota_size wrapped
\* around and neither "ota" nor "app" was recorded
C20_Witness ==
    /\ ran.cmd = "STORAGE"
    /\ layouts.last = [op |-> "storage", size |-> 254]
    /\ layouts.current = 251
    /\ Len(layouts.list) = 2

====
